---- MODULE Spec2Model ----
(***************************************************************************)
(* RBPFBase of pyparticleest/part_utils.py: the dynamics resolvers         *)
(* (get_*_dynamics_int), set_dynamics and the update cycle.                *)
(*                                                                         *)
(* Python values are records tagged by kind:                               *)
(*   None                      [k |-> "none"]                              *)
(*   a number                  [k |-> "num", n |-> ..]                     *)
(*   a tuple                   [k |-> "tuple", items |-> <<..>>]           *)
(*   a numpy.ndarray           [k |-> "ndarray", shape |-> <<..>>,         *)
(*                              data |-> <<..>>]  (row-major)              *)
(*   an attribute never set    [k |-> "absent"]                            *)
(***************************************************************************)
EXTENDS Integers, Sequences, FiniteSets, TLC

VARIABLES
    kf,          \* self.kf: the Kalman collaborator's A, C, Q, R, f_k, h_k
    t,           \* self.t
    xi_defaults, \* self.Axi, self.fxi, self.Qxi as found on the instance
    particles,   \* the driver's particle collection: records [xi, z, P]
    ovr,         \* model class: what its dynamics-override hooks return
    missing,     \* model class: the update hook it does not define, or "none"
    pc,          \* position inside update ("idle" outside a call)
    frame,       \* update's locals: u, xin, _xil, zl, Pl
    t0,          \* the epoch __init__ was given
    completed,   \* number of update calls that returned normally
    calls,       \* number of update calls started
    pre,         \* particles, kf and t at the start of the latest update
    log,         \* hook invocations of the latest update, in order
    res          \* outcome of the latest call

vars == <<kf, t, xi_defaults, particles, ovr, missing, pc, frame, t0,
          completed, calls, pre, log, res>>

----------------------------------------------------------------------------
(* Bounds *)

\* largest particle count N
MaxN == 2
\* largest number of update calls started on one instance
MaxUpdates == 2

----------------------------------------------------------------------------
(* Python and numpy values *)

None == [k |-> "none"]
Absent == [k |-> "absent"]
Num(n) == [k |-> "num", n |-> n]
Tup(s) == [k |-> "tuple", items |-> s]
Arr(sh, d) == [k |-> "ndarray", shape |-> sh, data |-> d]

RECURSIVE Prod(_)
Prod(s) == IF s = <<>> THEN 1 ELSE Head(s) * Prod(Tail(s))

\* ndarray.size
Size(a) == Prod(a.shape)

\* len(x) of a tuple or of an ndarray with at least one axis
PyLen(x) ==
    IF x.k = "tuple" THEN Len(x.items)
    ELSE IF x.k = "ndarray" /\ x.shape # <<>> THEN x.shape[1]
    ELSE -1

\* x[i-1] for i in 1..len(x): the i-th entry of a per-particle sequence
Entry(x, i) ==
    IF x.k = "tuple" THEN x.items[i]
    ELSE LET m == Prod(Tail(x.shape))
         IN  Arr(Tail(x.shape), SubSeq(x.data, (i - 1) * m + 1, i * m))

\* N*(x,)
TupleRepeat(N, x) == Tup([i \in 1..N |-> x])

\* a[numpy.newaxis,:,:] is defined for an ndarray of two or more axes;
\* on None, a number or a tuple it raises TypeError, on fewer axes IndexError
CanIndex3(a) == a.k = "ndarray" /\ Len(a.shape) >= 2

\* a[numpy.newaxis,:,:]
NewAxis(a) == Arr(<<1>> \o a.shape, a.data)

\* numpy.repeat(a, N, axis=0): every block along axis 0 repeated N times
NumpyRepeat0(a, N) ==
    LET m == Prod(Tail(a.shape))
        n == a.shape[1] * N
    IN  Arr(<<n>> \o Tail(a.shape),
            [j \in 1..(n * m) |->
                a.data[(((j - 1) \div m) \div N) * m + ((j - 1) % m) + 1]])

\* The branch `if (x == None):` takes.  None == None is True; a number or a
\* tuple never equals None.  On an ndarray numpy decides: releases before
\* 1.13 answer False (with a FutureWarning), later ones compare elementwise,
\* and the truth value of the resulting array is False for at most one
\* element and raises ValueError for more.
IfEqNone(x) ==
    IF x.k = "none" THEN {"then"}
    ELSE IF x.k = "ndarray" THEN {"else"} \cup (IF Size(x) > 1 THEN {"raise"} ELSE {})
    ELSE {"else"}

----------------------------------------------------------------------------
(* Call outcomes *)

Ok(v) == [status |-> "ok", err |-> "", at |-> "", val |-> v]
Raise(e) == [status |-> "raise", err |-> e, at |-> "", val |-> <<>>]
\* an exception that left update while it was calling (or looking up) hook h
RaiseAt(e, h) == [status |-> "raise", err |-> e, at |-> h, val |-> <<>>]

Result(op, arg, out) ==
    [op |-> op, arg |-> arg, status |-> out.status, err |-> out.err,
     at |-> out.at, val |-> out.val]

NoRes == Result("none", None, Ok(<<>>))

\* one `if (x == None): x = <broadcast>` statement; bc is the outcome of
\* evaluating the broadcast expression, which only the "then" branch does
ResolveEntry(x, bc) ==
    { IF b = "then" THEN bc ELSE IF b = "else" THEN Ok(x) ELSE Raise("ValueError")
      : b \in IfEqNone(x) }

\* three such statements in sequence, then `return (a, f, q)`: the first
\* statement that raises ends the call
ResolveTriple(ra, rf, rq) ==
    { IF a.status = "raise" THEN a
      ELSE IF f.status = "raise" THEN f
      ELSE IF q.status = "raise" THEN q
      ELSE Ok(<<a.val, f.val, q.val>>)
      : <<a, f, q>> \in ra \X rf \X rq }

----------------------------------------------------------------------------
(* Matrices and inputs used by the model *)

\* a 1x1 and a 2x2 matrix
M1 == Arr(<<1, 1>>, <<1>>)
M2 == Arr(<<2, 2>>, <<2, 0, 0, 2>>)

\* constructor arguments (Az, fz, Qz, C, hz, R): RBPFBase() with its
\* defaults, matrices throughout, and the scalar model A=1, Q=1, C=1, R=1
CtorDefault == [Az |-> None, fz |-> None, Qz |-> None, C |-> None, hz |-> None, R |-> None]
CtorMatrix == [Az |-> M1, fz |-> M1, Qz |-> M1, C |-> M1, hz |-> M1, R |-> M1]
CtorScalar == [Az |-> Num(1), fz |-> None, Qz |-> Num(1), C |-> Num(1), hz |-> None, R |-> Num(1)]
CtorArgs == {CtorDefault, CtorMatrix, CtorScalar}

\* set_dynamics arguments: a new Qz only, or new Az and C
DynArgs ==
    { [Az |-> None, C |-> None, Qz |-> M2, R |-> None, fz |-> None, hz |-> None],
      [Az |-> M2, C |-> M2, Qz |-> None, R |-> None, fz |-> None, hz |-> None] }

Epochs == {0, 3}
XiVals == {0, 1}
UVals == {0, 1}
YVals == {0, 1}

\* what a dynamics-override hook returns for one matrix, given N particles
Kinds == {"sentinel", "seq", "badlen", "stack", "zero", "empty"}

HookVal(kind, N) ==
    CASE kind = "sentinel" -> None
      [] kind = "seq"      -> Tup([i \in 1..N |-> Arr(<<1, 1>>, <<i>>)])
      [] kind = "badlen"   -> Tup([i \in 1..(N + 1) |-> Arr(<<1, 1>>, <<i>>)])
      [] kind = "stack"    -> Arr(<<N, 1, 2>>, [j \in 1..(2 * N) |-> 0])
      [] kind = "zero"     -> Num(0)
      [] kind = "empty"    -> Tup(<<>>)

----------------------------------------------------------------------------
(* The Kalman collaborator (kalman.KalmanSmoother) *)

\* KalmanSmoother(A=, C=, Q=, R=, f_k=, h_k=) holds what it is given
KalmanSmoother(A, C, Q, R, f_k, h_k) ==
    [A |-> A, C |-> C, Q |-> Q, R |-> R, f_k |-> f_k, h_k |-> h_k]

Keep(old, new) == IF new = None THEN old ELSE new

\* kf.set_dynamics(A, C, Q, R, f_k, h_k): every parameter is optional, an
\* argument left at None leaves the stored matrix as it is
KalmanSetDynamics(k, A, C, Q, R, f_k, h_k) ==
    [A |-> Keep(k.A, A), C |-> Keep(k.C, C), Q |-> Keep(k.Q, Q),
     R |-> Keep(k.R, R), f_k |-> Keep(k.f_k, f_k), h_k |-> Keep(k.h_k, h_k)]

----------------------------------------------------------------------------
(* Dynamics-override hooks and resolvers *)

N == Len(particles)

get_nonlin_pred_dynamics == <<HookVal(ovr[1], N), HookVal(ovr[2], N), HookVal(ovr[3], N)>>
get_lin_pred_dynamics == <<HookVal(ovr[1], N), HookVal(ovr[2], N), HookVal(ovr[3], N)>>
get_meas_dynamics(y) == <<Num(y), HookVal(ovr[1], N), HookVal(ovr[2], N), HookVal(ovr[3], N)>>
get_condlin_pred_dynamics == <<None, None, None>>

\* N*(self.<name>,): reading an attribute the instance does not have
\* raises AttributeError
OwnDefault(attr) ==
    IF attr = Absent THEN Raise("AttributeError") ELSE Ok(TupleRepeat(N, attr))

\* a default handed back as it is, not repeated per particle
KalmanDefaultUnrepeated(m) == Ok(m)

\* N*(self.kf.<name>,)
KalmanDefault(m) == Ok(TupleRepeat(N, m))

\* numpy.repeat(self.kf.Q[numpy.newaxis,:,:], N, axis=0)
StackedDefault(m) ==
    IF CanIndex3(m) THEN Ok(NumpyRepeat0(NewAxis(m), N)) ELSE Raise("TypeError")

\* an override cut down to the first N entries
KeepOverrideCut(x) ==
    IF x.k = "tuple" /\ Len(x.items) > N THEN Tup(SubSeq(x.items, 1, N)) ELSE x

\* the value an entry keeps when the hook supplied it
KeepOverride(x) == x

get_nonlin_pred_dynamics_int ==
    LET h == get_nonlin_pred_dynamics
    IN  ResolveTriple(ResolveEntry(KeepOverride(h[1]), OwnDefault(xi_defaults.Axi)),
                      ResolveEntry(KeepOverride(h[2]), OwnDefault(xi_defaults.fxi)),
                      ResolveEntry(KeepOverride(h[3]), OwnDefault(xi_defaults.Qxi)))

get_lin_pred_dynamics_int ==
    LET h == get_lin_pred_dynamics
    IN  ResolveTriple(ResolveEntry(KeepOverride(h[1]), KalmanDefault(kf.A)),
                      ResolveEntry(KeepOverride(h[2]), KalmanDefault(kf.f_k)),
                      ResolveEntry(KeepOverride(h[3]), StackedDefault(kf.Q)))

get_meas_dynamics_int(y) ==
    LET h == get_meas_dynamics(y)
        r == ResolveTriple(ResolveEntry(KeepOverride(h[2]), KalmanDefault(kf.C)),
                           ResolveEntry(KeepOverride(h[3]), KalmanDefault(kf.h_k)),
                           ResolveEntry(KeepOverride(h[4]), KalmanDefault(kf.R)))
    IN  { IF o.status = "ok" THEN Ok(<<h[1]>> \o o.val) ELSE o : o \in r }

----------------------------------------------------------------------------
(* Construction *)

\* create_initial_estimate: every particle starts at xi = 0, z = 0, P = 1
Particle0 == [xi |-> 0, z |-> 0, P |-> 1]

\* RBPFBase.__init__ assigns self.kf and self.t and nothing else: Axi, fxi
\* and Qxi exist on the instance only if a subclass put them there
XiUnset == [Axi |-> Absent, fxi |-> Absent, Qxi |-> Absent]
XiBySubclass == [Axi |-> M1, fxi |-> M2, Qxi |-> M1]

Hooks == {"calc_xi_next", "meas_xi_next", "cond_predict", "get_states", "set_states"}

NoFrame == [u |-> 0, xin |-> <<>>, xil |-> <<>>, zl |-> <<>>, Pl |-> <<>>]
NoPre == [particles |-> <<>>, kf |-> None, t |-> 0]

InitWith(ctors, xis, ovrs, missings) ==
    /\ \E c \in ctors :
         kf = KalmanSmoother(c.Az, c.C, c.Qz, c.R, c.fz, c.hz)
    /\ t0 \in Epochs
    /\ t = t0
    /\ xi_defaults \in xis
    /\ \E n \in 0..MaxN : particles = [i \in 1..n |-> Particle0]
    /\ ovr \in ovrs
    /\ missing \in missings
    /\ pc = "idle"
    /\ frame = NoFrame
    /\ completed = 0
    /\ calls = 0
    /\ pre = NoPre
    /\ log = <<>>
    /\ res = NoRes

\* RBPFBase() with the dynamics hooks of the base class, which return
\* (None, None, None), on a model that defines all update hooks or lacks one
Init ==
    InitWith({CtorDefault}, {XiUnset}, {<<"sentinel", "sentinel", "sentinel">>},
             Hooks \cup {"none"})

\* every constructor call, with or without own defaults set by a subclass,
\* and every combination of overrides a subclass hook may return
InitResolver ==
    InitWith(CtorArgs, {XiUnset, XiBySubclass}, Kinds \X Kinds \X Kinds, {"none"})

----------------------------------------------------------------------------
(* set_dynamics and the resolver queries *)

Quiet == UNCHANGED <<t, xi_defaults, particles, ovr, missing, pc, frame, t0,
                     completed, calls>>

set_dynamics(a) ==
    /\ pc = "idle"
    /\ kf' = KalmanSetDynamics(kf, a.Az, a.C, a.Qz, a.R, a.fz, a.hz)
    /\ res' = Result("set_dynamics", None, Ok(<<>>))
    /\ pre' = NoPre
    /\ log' = <<>>
    /\ Quiet

Query(op, arg, outcomes) ==
    /\ pc = "idle"
    /\ \E o \in outcomes : res' = Result(op, arg, o)
    /\ pre' = NoPre
    /\ log' = <<>>
    /\ UNCHANGED kf
    /\ Quiet

NonlinQuery == Query("get_nonlin_pred_dynamics_int", None, get_nonlin_pred_dynamics_int)
LinQuery == Query("get_lin_pred_dynamics_int", None, get_lin_pred_dynamics_int)
MeasQuery == \E y \in YVals : Query("get_meas_dynamics_int", Num(y), get_meas_dynamics_int(y))
CondlinQuery == Query("get_condlin_pred_dynamics", None, {Ok(get_condlin_pred_dynamics)})

----------------------------------------------------------------------------
(* The hooks update relies on.  RBPFBase does not define them; they are     *)
(* modelled on a model whose conditioning is a deterministic function of    *)
(* the propagated nonlinear state and whose prediction is                   *)
(* P' = A*P*A + Q with A = 1, Q = 1.                                        *)

\* xi_next[i] is what the noise sample of particle i decides
calc_xi_next(parts, noise, u) == noise

\* conditioning: z becomes the value observed through xi_next
meas_xi_next(parts, xi_next, u) ==
    [i \in 1..Len(parts) |-> [parts[i] EXCEPT !.z = xi_next[i]]]

\* prediction: the covariance grows by Q
cond_predict(parts, xi_next, u) ==
    [i \in 1..Len(parts) |-> [parts[i] EXCEPT !.P = parts[i].P + 1]]

get_states(parts) ==
    <<[i \in 1..Len(parts) |-> parts[i].xi],
      [i \in 1..Len(parts) |-> parts[i].z],
      [i \in 1..Len(parts) |-> parts[i].P]>>

set_states(parts, xil, zl, Pl) ==
    [i \in 1..Len(parts) |-> [xi |-> xil[i], z |-> zl[i], P |-> Pl[i]]]

----------------------------------------------------------------------------
(* update(particles, u, noise), one action per statement *)

\* prediction called before conditioning
StepAfterSwapped(h) ==
    CASE h = "calc_xi_next" -> "cond_predict"
      [] h = "cond_predict" -> "meas_xi_next"
      [] h = "meas_xi_next" -> "get_states"
      [] h = "get_states"   -> "set_states"
      [] h = "set_states"   -> "advance"

\* the statement that follows the call of hook h
StepAfter(h) ==
    CASE h = "calc_xi_next" -> "meas_xi_next"
      [] h = "meas_xi_next" -> "cond_predict"
      [] h = "cond_predict" -> "get_states"
      [] h = "get_states"   -> "set_states"
      [] h = "set_states"   -> "advance"

\* an exception swallowed: update goes on with the next statement
OnRaiseSwallowed(h) ==
    CASE h = "calc_xi_next" -> "meas_xi_next"
      [] h = "meas_xi_next" -> "cond_predict"
      [] h = "cond_predict" -> "get_states"
      [] h = "get_states"   -> "set_states"
      [] h = "set_states"   -> "advance"

\* where control goes when the call of hook h raises: update has no
\* try/except, the exception leaves update
OnRaise(h) == "idle"

\* xi_next=xin in the calls of meas_xi_next and cond_predict
XiNextArg(f, parts) == f.xin

\* the xi read back committed instead of xin
CommitArgsReadBack(f) == <<f.xil, f.zl, f.Pl>>

\* the arguments of set_states(particles, xin, zl, Pl)
CommitArgs(f) == <<f.xin, f.zl, f.Pl>>

\* the counter advanced twice
AdvanceTwice(tt) == tt + 2

\* self.t = self.t + 1.0
Advance(tt) == tt + 1

Call(h, xi, z, P) == [hook |-> h, xi |-> xi, z |-> z, P |-> P]

Static == UNCHANGED <<kf, xi_defaults, ovr, missing, t0>>

\* the statement calling h fails: h is not an attribute of the model
\* (AttributeError, h never runs) or h itself raises
Abort(h, u, entry) ==
    /\ \/ /\ missing = h
          /\ log' = log
          /\ res' = Result("update", Num(u), RaiseAt("AttributeError", h))
       \/ /\ missing # h
          /\ log' = Append(log, entry)
          /\ res' = Result("update", Num(u), RaiseAt("HookError", h))
    /\ pc' = OnRaise(h)
    /\ frame' = NoFrame
    /\ UNCHANGED <<particles, t, completed>>

\* h returns and update goes on with frame f and particles parts
Return(h, entry, f, parts) ==
    /\ missing # h
    /\ log' = Append(log, entry)
    /\ frame' = f
    /\ particles' = parts
    /\ pc' = StepAfter(h)
    /\ res' = NoRes
    /\ UNCHANGED <<t, completed>>

\* xin = self.calc_xi_next(particles=particles, noise=noise, u=u)
update_calc_xi_next(u, noise) ==
    /\ pc = "idle"
    /\ calls < MaxUpdates
    /\ calls' = calls + 1
    /\ pre' = [particles |-> particles, kf |-> kf, t |-> t]
    /\ LET xin == calc_xi_next(particles, noise, u)
       IN  \/ /\ Abort("calc_xi_next", u, Call("calc_xi_next", <<>>, <<>>, <<>>))
              /\ log' \in {<<>>, <<Call("calc_xi_next", <<>>, <<>>, <<>>)>>}
           \/ /\ Return("calc_xi_next", Call("calc_xi_next", xin, <<>>, <<>>),
                        [NoFrame EXCEPT !.u = u, !.xin = xin], particles)
              /\ log' = <<Call("calc_xi_next", xin, <<>>, <<>>)>>
    /\ Static

\* self.meas_xi_next(particles=particles, xi_next=xin, u=u)
update_meas_xi_next ==
    /\ pc = "meas_xi_next"
    /\ LET arg == XiNextArg(frame, particles)
           e == Call("meas_xi_next", arg, <<>>, <<>>)
       IN  \/ Abort("meas_xi_next", frame.u, e)
           \/ Return("meas_xi_next", e, frame, meas_xi_next(particles, arg, frame.u))
    /\ UNCHANGED <<calls, pre>>
    /\ Static

\* self.cond_predict(particles=particles, xi_next=xin, u=u)
update_cond_predict ==
    /\ pc = "cond_predict"
    /\ LET arg == XiNextArg(frame, particles)
           e == Call("cond_predict", arg, <<>>, <<>>)
       IN  \/ Abort("cond_predict", frame.u, e)
           \/ Return("cond_predict", e, frame, cond_predict(particles, arg, frame.u))
    /\ UNCHANGED <<calls, pre>>
    /\ Static

\* (_xil, zl, Pl) = self.get_states(particles)
update_get_states ==
    /\ pc = "get_states"
    /\ LET s == get_states(particles)
       IN  \/ Abort("get_states", frame.u, Call("get_states", <<>>, <<>>, <<>>))
           \/ Return("get_states", Call("get_states", s[1], s[2], s[3]),
                     [frame EXCEPT !.xil = s[1], !.zl = s[2], !.Pl = s[3]], particles)
    /\ UNCHANGED <<calls, pre>>
    /\ Static

\* self.set_states(particles, xin, zl, Pl)
update_set_states ==
    /\ pc = "set_states"
    /\ LET a == CommitArgs(frame)
           e == Call("set_states", a[1], a[2], a[3])
       IN  \/ Abort("set_states", frame.u, e)
           \/ Return("set_states", e, frame, set_states(particles, a[1], a[2], a[3]))
    /\ UNCHANGED <<calls, pre>>
    /\ Static

\* self.t = self.t + 1.0, and update returns
update_advance ==
    /\ pc = "advance"
    /\ t' = Advance(t)
    /\ completed' = completed + 1
    /\ pc' = "idle"
    /\ frame' = NoFrame
    /\ res' = Result("update", Num(frame.u), Ok(<<>>))
    /\ UNCHANGED <<particles, calls, pre, log>>
    /\ Static

update ==
    \/ \E u \in UVals : \E noise \in [1..N -> XiVals] : update_calc_xi_next(u, noise)
    \/ update_meas_xi_next
    \/ update_cond_predict
    \/ update_get_states
    \/ update_set_states
    \/ update_advance

----------------------------------------------------------------------------
(* Specifications *)

Queries ==
    \/ NonlinQuery
    \/ LinQuery
    \/ MeasQuery
    \/ CondlinQuery

Reconfigure == \E a \in DynArgs : set_dynamics(a)

Next == update \/ Reconfigure \/ Queries

Spec == Init /\ [][Next]_vars

NextResolver == Reconfigure \/ Queries

SpecResolver == InitResolver /\ [][NextResolver]_vars

----------------------------------------------------------------------------
(* Vocabulary of the properties *)

Order == <<"calc_xi_next", "meas_xi_next", "cond_predict", "get_states", "set_states">>

HooksOf(l) == [i \in 1..Len(l) |-> l[i].hook]

IsPrefix(a, b) == Len(a) <= Len(b) /\ SubSeq(b, 1, Len(a)) = a

Resolvers == {"get_nonlin_pred_dynamics_int", "get_lin_pred_dynamics_int",
              "get_meas_dynamics_int"}

\* the triple the hook returned in the call res describes
HookTriple ==
    IF res.op = "get_nonlin_pred_dynamics_int" THEN get_nonlin_pred_dynamics
    ELSE IF res.op = "get_lin_pred_dynamics_int" THEN get_lin_pred_dynamics
    ELSE Tail(get_meas_dynamics(res.arg.n))

\* the triple the resolver returned
ResTriple == IF res.op = "get_meas_dynamics_int" THEN Tail(res.val) ELSE res.val

\* the defaults the resolver is documented to fall back on
DefaultTriple ==
    IF res.op = "get_nonlin_pred_dynamics_int"
    THEN <<xi_defaults.Axi, xi_defaults.fxi, xi_defaults.Qxi>>
    ELSE IF res.op = "get_lin_pred_dynamics_int" THEN <<kf.A, kf.f_k, kf.Q>>
    ELSE <<kf.C, kf.h_k, kf.R>>

\* x is a per-particle sequence of length N whose every entry is d
Broadcast(x, d) == PyLen(x) = N /\ \A i \in 1..N : Entry(x, i) = d

UpdateDone == res.op = "update" /\ res.status = "ok"

----------------------------------------------------------------------------
(* C1 *)

\* C1: with k update calls completed, whatever else was called on the
\* instance (set_dynamics, the resolver queries, updates that raised), the
\* time counter is t0 + k.
C1_TimeCounter == t = t0 + completed

C1_Witness ==
    /\ completed = 2
    /\ calls = 2
    /\ res.op = "set_dynamics"
    /\ t = t0 + 2

----------------------------------------------------------------------------
(* C2 *)

\* C2: inside update the hooks run in the order calc_xi_next, meas_xi_next,
\* cond_predict, get_states, set_states, each once; meas_xi_next and
\* cond_predict receive the xi_next that calc_xi_next returned; t is
\* incremented only after set_states has returned.
C2_StepOrder ==
    /\ IsPrefix(HooksOf(log), Order)
    /\ \A i \in 1..Len(log) :
         log[i].hook \in {"meas_xi_next", "cond_predict"} => log[i].xi = log[1].xi
    /\ pc # "idle" => /\ t = pre.t
                      /\ log # <<>>
                      /\ pc = (Order \o <<"advance">>)[Len(log) + 1]
    /\ UpdateDone => HooksOf(log) = Order /\ t = pre.t + 1

\* an update has completed in which propagation changed some particle's xi
C2_Witness ==
    /\ UpdateDone
    /\ \E i \in 1..N : log[2].xi[i] # pre.particles[i].xi

----------------------------------------------------------------------------
(* C3 *)

\* C3 as stated: in the linear-prediction and the measurement query every
\* sentinel entry resolves to N copies of the collaborator's default (calls
\* that the comparison of another entry makes raise are left aside).
C3_AsStated ==
    (/\ res.op \in {"get_lin_pred_dynamics_int", "get_meas_dynamics_int"}
     /\ res.err # "ValueError")
    => \A i \in 1..3 :
         HookTriple[i] = None
         => res.status = "ok" /\ Broadcast(ResTriple[i], DefaultTriple[i])

\* C3: whenever the linear-prediction or the measurement query returns,
\* every sentinel entry has been resolved to N copies of the collaborator's
\* default as it is now; get_lin_pred_dynamics_int raises TypeError exactly
\* when it gets that far with a sentinel Qz and kf.Q is no array of two or
\* more axes.
C3_Broadcast ==
    res.op \in {"get_lin_pred_dynamics_int", "get_meas_dynamics_int"}
    => /\ res.status = "ok"
          => \A i \in 1..3 :
               HookTriple[i] = None => Broadcast(ResTriple[i], DefaultTriple[i])
       /\ res.err = "TypeError"
          => /\ res.op = "get_lin_pred_dynamics_int"
             /\ HookTriple[3] = None
             /\ ~CanIndex3(kf.Q)
       /\ (/\ res.op = "get_lin_pred_dynamics_int"
           /\ HookTriple[3] = None
           /\ ~CanIndex3(kf.Q))
          => res.status = "raise"

\* a resolution after set_dynamics(Qz=M2): two copies of the new Q
C3_Witness ==
    /\ res.op = "get_lin_pred_dynamics_int"
    /\ res.status = "ok"
    /\ HookTriple = <<None, None, None>>
    /\ N = 2
    /\ kf.Q = M2
    /\ res.val[3] = Arr(<<2, 2, 2>>, <<2, 0, 0, 2, 2, 0, 0, 2>>)

----------------------------------------------------------------------------
(* C4 *)

\* C4: the nonlinear-prediction query of a model whose hook returns the
\* sentinel for a matrix succeeds and yields N copies of the model's own
\* stored default.
C4_OwnDefault ==
    (/\ res.op = "get_nonlin_pred_dynamics_int"
     /\ res.err # "ValueError")
    => \A i \in 1..3 :
         HookTriple[i] = None
         => res.status = "ok" /\ Broadcast(ResTriple[i], DefaultTriple[i])

----------------------------------------------------------------------------
(* C5 *)

\* C5: an entry for which the hook returns a per-particle sequence of
\* length N comes back unchanged whatever the other entries are, and the
\* measurement query hands y back unchanged (calls in which a default
\* cannot be built are left aside).
C5_PassThrough ==
    (/\ res.op \in Resolvers
     /\ res.err \notin {"TypeError", "AttributeError"})
    => /\ \A i \in 1..3 :
            PyLen(HookTriple[i]) = N
            => res.status = "ok" /\ ResTriple[i] = HookTriple[i]
       /\ (res.op = "get_meas_dynamics_int" /\ res.status = "ok")
          => res.val[1] = res.arg

----------------------------------------------------------------------------
(* C6 *)

Falsy(x) ==
    \/ x = Num(0)
    \/ x = Tup(<<>>)
    \/ x.k = "ndarray" /\ \A j \in 1..Len(x.data) : x.data[j] = 0

\* C6: an override that is present but zero or empty (a zero scalar, an
\* empty sequence, zero matrices) is handed back as it is: the default does
\* not replace it and the call does not reject it.
C6_FalsyOverride ==
    (/\ res.op \in Resolvers
     /\ res.err \notin {"TypeError", "AttributeError"})
    => \A i \in 1..3 :
         Falsy(HookTriple[i])
         => res.status = "ok" /\ ResTriple[i] = HookTriple[i]

----------------------------------------------------------------------------
(* C7 *)

\* C7 as stated: every sequence a resolver returns has length N.
C7_AsStated ==
    (res.op \in Resolvers /\ res.status = "ok")
    => \A i \in 1..3 : PyLen(ResTriple[i]) = N

\* C7: the resolvers do not look at the length of what the hook returns.
\* Whenever one returns, an entry the hook supplied is handed back unchanged
\* whatever its length, and only the entries built by broadcasting have
\* length N; when one raises, the cause is the None-comparison of an array
\* (ValueError), kf.Q (TypeError) or a missing own default (AttributeError).
C7_NoValidation ==
    res.op \in Resolvers
    => /\ res.status = "ok"
          => \A i \in 1..3 :
               /\ HookTriple[i] # None => ResTriple[i] = HookTriple[i]
               /\ HookTriple[i] = None => PyLen(ResTriple[i]) = N
       /\ res.status = "raise"
          => \/ /\ res.err = "ValueError"
                /\ \E i \in 1..3 : HookTriple[i].k = "ndarray" /\ Size(HookTriple[i]) > 1
             \/ /\ res.err = "TypeError"
                /\ res.op = "get_lin_pred_dynamics_int"
                /\ HookTriple[3] = None
             \/ /\ res.err = "AttributeError"
                /\ res.op = "get_nonlin_pred_dynamics_int"
                /\ \E i \in 1..3 : HookTriple[i] = None /\ DefaultTriple[i] = Absent

\* a sequence of N + 1 entries came back from a resolver
C7_Witness ==
    /\ res.op \in Resolvers
    /\ res.status = "ok"
    /\ N >= 1
    /\ \E i \in 1..3 : HookTriple[i].k = "tuple" /\ PyLen(ResTriple[i]) = N + 1

----------------------------------------------------------------------------
(* C8 *)

\* C8: when update fails because the model lacks a hook, particles, the
\* Kalman collaborator and t are as they were before the call.
C8_MissingHook ==
    (res.op = "update" /\ res.err = "AttributeError")
    => particles = pre.particles /\ kf = pre.kf /\ t = pre.t

----------------------------------------------------------------------------
(* C9 *)

\* the state update is to leave behind, from the state before the call and
\* the xi_next that calc_xi_next returned
Committed(parts, xin, u) ==
    LET s == get_states(cond_predict(meas_xi_next(parts, xin, u), xin, u))
    IN  [i \in 1..Len(parts) |-> [xi |-> xin[i], z |-> s[2][i], P |-> s[3][i]]]

\* C9: after a completed update every particle's xi is the xi_next that
\* calc_xi_next returned and its (z, P) is what get_states read back after
\* meas_xi_next and cond_predict ran; between read-back and commit (z, P)
\* of the particles is what was read.
C9_Commit ==
    /\ pc \in {"set_states", "advance"}
       => \A i \in 1..N : /\ particles[i].z = frame.zl[i]
                          /\ particles[i].P = frame.Pl[i]
    /\ UpdateDone
       => /\ particles = Committed(pre.particles, log[1].xi, res.arg.n)
          /\ \A i \in 1..N : /\ particles[i].xi = log[1].xi[i]
                             /\ particles[i].z = log[4].z[i]
                             /\ particles[i].P = log[4].P[i]

\* a completed update whose read-back xi differed from the committed one
C9_Witness ==
    /\ UpdateDone
    /\ N = 2
    /\ log[4].xi # log[1].xi
    /\ \E i \in 1..N : particles[i].z # pre.particles[i].z

----------------------------------------------------------------------------
(* C10 *)

\* C10: when a hook raises, update ends there: the raising hook is the last
\* one invoked, each hook before it ran once, and t is what it was before
\* the call; an update that has ended either completed all five steps with
\* t advanced by 1 or raised with t not advanced.
C10_Propagate ==
    /\ (res.op = "update" /\ res.err = "HookError")
       => /\ pc = "idle"
          /\ log # <<>>
          /\ log[Len(log)].hook = res.at
          /\ IsPrefix(HooksOf(log), Order)
          /\ t = pre.t
    /\ (res.op = "update" /\ pc = "idle")
       => \/ res.status = "ok" /\ HooksOf(log) = Order /\ t = pre.t + 1
          \/ res.status = "raise" /\ HooksOf(log) # Order /\ t = pre.t
          \/ /\ res.status = "raise"
             /\ res.at = "set_states"
             /\ res.err = "HookError"
             /\ t = pre.t

\* get_states raised after conditioning and prediction had run
C10_Witness ==
    /\ res.op = "update"
    /\ res.err = "HookError"
    /\ res.at = "get_states"
    /\ HooksOf(log) = SubSeq(Order, 1, 4)
    /\ particles # pre.particles

====
